---- MODULE Spec2Model ----
(***************************************************************************)
(* A model of app.py, the Streamlit coaching-plan generator.               *)
(*                                                                         *)
(* Three specifications share this module:                                 *)
(*   Spec        the session: secrets, widgets, st.session_state, one      *)
(*               script run per user interaction, the generation loop;     *)
(*   SpecClean   clean_text applied to bounded strings and lists;          *)
(*   SpecExtract the row extraction of the generation loop (lines 156-158) *)
(*               applied to bounded tables.                                *)
(*                                                                         *)
(* Agent display names are modelled as the numbers 1..NumAgents; the order *)
(* of the numbers stands for the lexicographic order sorted() uses.        *)
(* Text is a sequence of one-character strings.                            *)
(***************************************************************************)
EXTENDS Integers, Sequences, FiniteSets, TLC

\* ---------------------------------------------------------------- bounds
NumAgents == 2
MaxLen == 4
MaxItems == 2
MaxItemLen == 1
MaxRows == 3
MaxLimit == 3

Agents == 1..NumAgents

VARIABLES
    \* configuration and environment
    secrets,            \* st.secrets: what is configured
    sheet,              \* agent names in the agent column of the readable sheet
    \* widget values
    password_ok,        \* the password typed equals st.secrets["APP_PASSWORD"]
    sheet_url,          \* kind of URL typed in the sidebar
    view_option,        \* the radio
    select_all_team,    \* key "select_all_team"
    check,              \* keys "check_<agent>"
    search_selection,   \* the multiselect, in selection order
    \* st.session_state
    session_keys,       \* which of generated_files / batch_complete exist
    generated_files,
    batch_complete,
    \* the latest script run
    selected_configs,   \* the list built by the selection UI
    offered,            \* agents whose roster checkbox was rendered
    shown,              \* messages and sections displayed
    ran,                \* components the run executed
    pc,                 \* "idle", or "generating" inside the loop of line 152
    loop_configs,       \* the list the loop of line 152 iterates
    loop_i,             \* position in that loop
    responses,          \* model outcomes received so far by the run that generates
    \* clean_text harness
    clean_in, clean_out, clean_twice,
    \* row extraction harness
    df, ex_agent, limit, agent_rows, missed, strengths,
    ex_pc               \* "ready" before lines 156-158 ran, "done" after

sessionVars == <<secrets, sheet, password_ok, sheet_url, view_option,
                 select_all_team, check, search_selection, session_keys,
                 generated_files, batch_complete, selected_configs, offered,
                 shown, ran, pc, loop_configs, loop_i, responses>>
cleanVars == <<clean_in, clean_out, clean_twice>>
extractVars == <<df, ex_agent, limit, agent_rows, missed, strengths, ex_pc>>
vars == <<sessionVars, cleanVars, extractVars>>

\* ------------------------------------------------------------ sequences
\* the sequences over S of length at most n
SeqsUpTo(S, n) == UNION {[1..k -> S] : k \in 0..n}

Range(s) == {s[i] : i \in 1..Len(s)}

NoDuplicates(s) == \A i, j \in 1..Len(s) : i # j => s[i] # s[j]

\* ----------------------------------------------------------- clean_text
Chars == {"*", "[", "]", "'", "\"", " ", "a"}
Whitespace == {" ", "\n"}

\* str.replace(junk, ""): left to right, non-overlapping, one pass
RECURSIVE Replace(_, _)
Replace(text, junk) ==
    IF Len(text) < Len(junk) THEN text
    ELSE IF SubSeq(text, 1, Len(junk)) = junk
         THEN Replace(SubSeq(text, Len(junk) + 1, Len(text)), junk)
         ELSE <<Head(text)>> \o Replace(Tail(text), junk)

RECURSIVE LStrip(_)
LStrip(text) ==
    IF text # <<>> /\ Head(text) \in Whitespace THEN LStrip(Tail(text)) ELSE text

RECURSIVE RStrip(_)
RStrip(text) ==
    IF text # <<>> /\ text[Len(text)] \in Whitespace
    THEN RStrip(SubSeq(text, 1, Len(text) - 1)) ELSE text

Strip(text) == RStrip(LStrip(text))

RECURSIVE Join(_, _)
Join(items, sep) ==
    IF items = <<>> THEN <<>>
    ELSE IF Len(items) = 1 THEN items[1]
    ELSE items[1] \o sep \o Join(Tail(items), sep)

JunkList == << <<"*", "*">>, <<"[", "'">>, <<"'", "]">>, <<"[", "\"">>, <<"\"", "]">> >>

RECURSIVE ReplaceEach(_, _)
ReplaceEach(text, junks) ==
    IF junks = <<>> THEN text
    ELSE ReplaceEach(Replace(text, Head(junks)), Tail(junks))

\* A value is [list |-> FALSE, val |-> text] or [list |-> TRUE, val |-> <<text, ...>>]
clean_text(x) ==
    LET text == IF x.list THEN Join(x.val, <<"\n">>) ELSE x.val
    IN  Strip(ReplaceEach(text, JunkList))

Str(text) == [list |-> FALSE, val |-> text]

\* ------------------------------------------------- clean_text harness
NotRun == <<"not run">>

CleanIdle ==
    /\ clean_in = Str(<<>>) /\ clean_out = NotRun /\ clean_twice = NotRun

ExtractIdle ==
    /\ df = <<>> /\ ex_agent = 1 /\ limit = 1
    /\ agent_rows = <<>> /\ missed = <<>> /\ strengths = <<>> /\ ex_pc = "done"

SessionIdle ==
    /\ secrets = [has_password |-> FALSE, team_present |-> FALSE,
                  team |-> <<>>, auth_ok |-> FALSE]
    /\ sheet = {}
    /\ password_ok = FALSE /\ sheet_url = "" /\ view_option = "My Team Only"
    /\ select_all_team = FALSE /\ check = [a \in Agents |-> FALSE]
    /\ search_selection = <<>> /\ session_keys = {}
    /\ generated_files = <<>> /\ batch_complete = FALSE
    /\ selected_configs = <<>> /\ offered = {} /\ shown = {} /\ ran = {}
    /\ pc = "idle" /\ loop_configs = <<>> /\ loop_i = 0 /\ responses = <<>>

\* a string of at most MaxLen characters, or a list of at most MaxItems
\* strings of at most MaxItemLen characters
InitClean ==
    /\ \/ \E t \in SeqsUpTo(Chars, MaxLen) : clean_in = Str(t)
       \/ \E l \in SeqsUpTo(SeqsUpTo(Chars, MaxItemLen), MaxItems) :
              clean_in = [list |-> TRUE, val |-> l]
    /\ clean_out = NotRun /\ clean_twice = NotRun
    /\ SessionIdle /\ ExtractIdle

\* clean_text(val), and clean_text applied to its own result
ApplyClean ==
    /\ clean_out = NotRun
    /\ clean_out' = clean_text(clean_in)
    /\ clean_twice' = clean_text(Str(clean_text(clean_in)))
    /\ UNCHANGED <<clean_in, sessionVars, extractVars>>

SpecClean == InitClean /\ [][ApplyClean]_vars

\* ------------------------------------------------------ row extraction
\* A row of the table: the agent column, one "Skill Performance Area Missed"
\* column, one "Strength" column; cells are text, "" when empty.
MissedCells == {"", "x", "y"}
StrengthCells == {"", "s"}
Rows == [agent : Agents, missed : MissedCells, strength : StrengthCells]

\* df[df["ES Last Name, First Name"] == agent]: the matching rows, each with
\* its index label, in the table's order
RECURSIVE Matching(_, _, _)
Matching(table, agent, i) ==
    IF i > Len(table) THEN <<>>
    ELSE IF table[i].agent = agent
         THEN <<[idx |-> i, row |-> table[i]]>> \o Matching(table, agent, i + 1)
         ELSE Matching(table, agent, i + 1)

\* DataFrame.head(n) in place of tail(n)
HeadRows(rows, n) == SubSeq(rows, 1, IF Len(rows) < n THEN Len(rows) ELSE n)

\* DataFrame.tail(n), n >= 1
TailRows(rows, n) ==
    IF Len(rows) <= n THEN rows ELSE SubSeq(rows, Len(rows) - n + 1, Len(rows))

ExtractRows(table, agent, n) == TailRows(Matching(table, agent, 1), n)

\* [str(val) for val in agent_rows[col] if val]
RECURSIVE NonEmpty(_, _)
NonEmpty(rows, col) ==
    IF rows = <<>> THEN <<>>
    ELSE LET val == IF col = "missed" THEN Head(rows).row.missed
                    ELSE Head(rows).row.strength
         IN  (IF val # "" THEN <<val>> ELSE <<>>) \o NonEmpty(Tail(rows), col)

InitExtract ==
    /\ df \in SeqsUpTo(Rows, MaxRows) /\ ex_agent \in Agents /\ limit \in 1..MaxLimit
    /\ agent_rows = <<>> /\ missed = <<>> /\ strengths = <<>> /\ ex_pc = "ready"
    /\ SessionIdle /\ CleanIdle

Extract ==
    /\ ex_pc = "ready"
    /\ ex_pc' = "done"
    /\ agent_rows' = ExtractRows(df, ex_agent, limit)
    /\ missed' = NonEmpty(ExtractRows(df, ex_agent, limit), "missed")
    /\ strengths' = NonEmpty(ExtractRows(df, ex_agent, limit), "strength")
    /\ UNCHANGED <<df, ex_agent, limit, sessionVars, cleanVars>>

SpecExtract == InitExtract /\ [][Extract]_vars

\* ---------------------------------------------------------- the session
TeamView == "My Team Only"
SearchView == "Search All Agents from Sheet"
UrlKinds == {"", "bad_url", "no_access", "no_column", "ok"}

RECURSIVE Insert(_, _)
Insert(x, s) ==
    IF s = <<>> THEN <<x>>
    ELSE IF x <= Head(s) THEN <<x>> \o s
    ELSE <<Head(s)>> \o Insert(x, Tail(s))

RECURSIVE Sorted(_)
Sorted(s) == IF s = <<>> THEN <<>> ELSE Insert(Head(s), Sorted(Tail(s)))

\* the roster kept in the configured order
MY_TEAM_unsorted == IF secrets.team_present THEN secrets.team ELSE <<>>

\* MY_TEAM = sorted(st.secrets["team"]["agents"]), or [] when not configured
MY_TEAM == IF secrets.team_present THEN Sorted(secrets.team) ELSE <<>>

\* lines 26-33: st.stop() without a configured secret or on a wrong password
PasswordGate(w) ==
    IF ~secrets.has_password
    THEN [stop |-> TRUE, shown |-> {"error_password_not_set"}]
    ELSE IF ~w.password_ok
         THEN [stop |-> TRUE, shown |-> {"warning_wrong_password"}]
         ELSE [stop |-> FALSE, shown |-> {}]

\* lines 39-43: an error message, no st.stop()
TeamGate ==
    IF secrets.team_present THEN [stop |-> FALSE, shown |-> {}]
    ELSE [stop |-> FALSE, shown |-> {"error_team_not_found"}]

\* the authentication failure is reported and the script goes on
AuthGate_open ==
    IF secrets.auth_ok THEN [stop |-> FALSE, shown |-> {}]
    ELSE [stop |-> FALSE, shown |-> {"error_authentication"}]

\* lines 59-69: any exception of the credential setup: st.error, st.stop()
AuthGate ==
    IF secrets.auth_ok THEN [stop |-> FALSE, shown |-> {}]
    ELSE [stop |-> TRUE, shown |-> {"error_authentication"}]

\* lines 46-49
SessionKeys == {"generated_files", "batch_complete"}

\* the callback leaves the checkboxes alone
toggle_all_flag_only(w) == [w EXCEPT !.batch_complete = FALSE]

\* lines 52-56: the on_change callback of "Select All My Team"
toggle_all(w) ==
    [w EXCEPT !.batch_complete = FALSE,
              !.check = [a \in Agents |->
                            IF a \in Range(MY_TEAM) THEN w.select_all_team
                            ELSE w.check[a]]]

\* a selection entry: agent_date defaults to the sidebar date (the per-agent
\* date pickers are left at their default)
Pair(agent) == [agent |-> agent, date |-> "sidebar_date"]

\* lines 116-127. A second checkbox with the key of an earlier one makes
\* Streamlit raise (duplicate widget key); the exception leaves the loop.
RECURSIVE RosterLoop(_, _, _)
RosterLoop(team, w, acc) ==
    IF team = <<>> \/ acc.raised THEN acc
    ELSE LET agent == Head(team)
         IN  IF agent \notin sheet THEN RosterLoop(Tail(team), w, acc)
             ELSE IF agent \in acc.offered THEN [acc EXCEPT !.raised = TRUE]
             ELSE RosterLoop(Tail(team), w,
                      [selected |-> IF w.check[agent]
                                    THEN Append(acc.selected, Pair(agent))
                                    ELSE acc.selected,
                       offered |-> acc.offered \cup {agent},
                       raised |-> FALSE])

\* lines 129-141
SearchLoop(w) ==
    [selected |-> [i \in 1..Len(w.search_selection) |-> Pair(w.search_selection[i])],
     offered |-> {}, raised |-> FALSE]

\* lines 109-141
Selection(w) ==
    IF w.view_option = TeamView
    THEN RosterLoop(MY_TEAM, w, [selected |-> <<>>, offered |-> {}, raised |-> FALSE])
    ELSE SearchLoop(w)

NoCore == [shown |-> {}, ran |-> {}, selected |-> <<>>, offered |-> {},
           button |-> FALSE, at_downloads |-> FALSE]

\* lines 106-144 and 303-304 once the selection loop sel has run
CoreSelected(sel) ==
    IF sel.raised
    THEN [shown |-> {"selection", "error_data"},
          ran |-> {"sheet_load", "selection_ui"},
          selected |-> sel.selected, offered |-> sel.offered,
          button |-> FALSE, at_downloads |-> FALSE]
    ELSE [shown |-> {"selection"}
                    \cup (IF sel.selected # <<>> THEN {"generate_button"} ELSE {}),
          ran |-> {"sheet_load", "selection_ui"},
          selected |-> sel.selected, offered |-> sel.offered,
          button |-> sel.selected # <<>>, at_downloads |-> TRUE]

\* lines 97-144 and 303-304, up to the button
CoreLogic(w) ==
    IF w.sheet_url = "" THEN NoCore
    ELSE IF w.sheet_url \in {"bad_url", "no_access"}
    THEN [NoCore EXCEPT !.shown = {"error_data"}, !.ran = {"sheet_load"}]
    ELSE IF w.sheet_url = "no_column"
    THEN [NoCore EXCEPT !.ran = {"sheet_load"}]
    ELSE CoreSelected(Selection(w))

\* line 275
DownloadSection(complete, files) == complete /\ files # <<>>

\* lines 35-304 once the password gate is passed; core is CoreLogic's result
AfterPassword(w, team, auth, core) ==
    IF auth.stop
    THEN [NoCore EXCEPT !.shown = team.shown \cup auth.shown,
                        !.ran = {"session_init"}]
         @@ [keys |-> w.keys \cup SessionKeys]
    ELSE [core EXCEPT !.shown = team.shown \cup auth.shown \cup {"sidebar"} \cup core.shown,
                      !.ran = {"session_init"} \cup core.ran]
         @@ [keys |-> w.keys \cup SessionKeys]

\* The script from line 26 on, given the password gate's verdict pw.
ScriptFrom(w, pw) ==
    IF pw.stop
    THEN [NoCore EXCEPT !.shown = pw.shown] @@ [keys |-> w.keys]
    ELSE AfterPassword(w, TeamGate, AuthGate, CoreLogic(w))

\* The script from line 26 to the button of line 146, run on the widget values
\* and session state w.
Script(w) == ScriptFrom(w, PasswordGate(w))

Cur ==
    [password_ok |-> password_ok, sheet_url |-> sheet_url,
     view_option |-> view_option, select_all_team |-> select_all_team,
     check |-> check, search_selection |-> search_selection,
     keys |-> session_keys, generated_files |-> generated_files,
     batch_complete |-> batch_complete]

Defaults ==
    [password_ok |-> FALSE, sheet_url |-> "", view_option |-> TeamView,
     select_all_team |-> FALSE, check |-> [a \in Agents |-> FALSE],
     search_selection |-> <<>>, keys |-> {}, generated_files |-> <<>>,
     batch_complete |-> FALSE]

\* Streamlit keeps a widget's value only while the widget is rendered: a run
\* that does not reach a widget drops its value, and the widget starts from its
\* default when it is rendered again. r is the result of the run on w.
Rendered(w, r) ==
    LET sidebar == "sidebar" \in r.shown
        ui == "selection_ui" \in r.ran
    IN  [w EXCEPT
            !.sheet_url = IF sidebar THEN w.sheet_url ELSE "",
            !.view_option = IF ui THEN w.view_option ELSE TeamView,
            !.select_all_team = ui /\ w.view_option = TeamView /\ w.select_all_team,
            !.check = [a \in Agents |-> a \in r.offered /\ w.check[a]],
            !.search_selection = IF ui /\ w.view_option = SearchView
                                 THEN w.search_selection ELSE <<>>]

\* One script run with no button pressed: the state it leaves.
Rerun(w) ==
    \E r \in {Script(w)} : \E kept \in {Rendered(w, r)} :
    LET dl == r.at_downloads /\ DownloadSection(w.batch_complete, w.generated_files)
    IN  /\ password_ok' = kept.password_ok
        /\ sheet_url' = kept.sheet_url
        /\ view_option' = kept.view_option
        /\ select_all_team' = kept.select_all_team
        /\ check' = kept.check
        /\ search_selection' = kept.search_selection
        /\ generated_files' = w.generated_files
        /\ batch_complete' = w.batch_complete
        /\ session_keys' = r.keys
        /\ selected_configs' = r.selected
        /\ offered' = r.offered
        /\ shown' = r.shown \cup (IF dl THEN {"downloads"} ELSE {})
        /\ ran' = r.ran \cup (IF dl THEN {"packaging"} ELSE {})
        /\ pc' = "idle"
        /\ responses' = <<>>
        /\ UNCHANGED <<secrets, sheet, loop_configs, loop_i, cleanVars, extractVars>>

Init ==
    /\ secrets \in [has_password : BOOLEAN, team_present : BOOLEAN,
                    team : SeqsUpTo(Agents, NumAgents), auth_ok : BOOLEAN]
    /\ ~secrets.team_present => secrets.team = <<>>
    /\ sheet \in SUBSET Agents
    /\ \E r \in {Script(Defaults)} :
           /\ password_ok = FALSE /\ sheet_url = "" /\ view_option = TeamView
           /\ select_all_team = FALSE /\ check = [a \in Agents |-> FALSE]
           /\ search_selection = <<>>
           /\ generated_files = <<>> /\ batch_complete = FALSE
           /\ session_keys = r.keys
           /\ selected_configs = r.selected /\ offered = r.offered
           /\ shown = r.shown /\ ran = r.ran
    /\ pc = "idle" /\ loop_configs = <<>> /\ loop_i = 0 /\ responses = <<>>
    /\ CleanIdle /\ ExtractIdle

\* ------------------------------------------------------- user actions
\* line 27: the sidebar password input
EnterPassword(ok) ==
    /\ pc = "idle" /\ secrets.has_password
    /\ ok # password_ok
    /\ Rerun([Cur EXCEPT !.password_ok = ok])

\* line 91: the sidebar, present once authentication passed
SetUrl(u) ==
    /\ pc = "idle" /\ "sidebar" \in shown
    /\ u # sheet_url
    /\ Rerun([Cur EXCEPT !.sheet_url = u])

\* line 107
SetView(v) ==
    /\ pc = "idle" /\ "selection_ui" \in ran
    /\ v # view_option
    /\ Rerun([Cur EXCEPT !.view_option = v])

\* line 113: the widget value changes, toggle_all runs, then the script
ToggleSelectAll ==
    /\ pc = "idle" /\ "selection_ui" \in ran /\ view_option = TeamView
    /\ Rerun(toggle_all([Cur EXCEPT !.select_all_team = ~select_all_team]))

\* line 120
ToggleCheck(a) ==
    /\ pc = "idle" /\ a \in offered
    /\ Rerun([Cur EXCEPT !.check[a] = ~check[a]])

\* line 130: one more name chosen among all_names
SearchAdd(a) ==
    /\ pc = "idle" /\ "selection_ui" \in ran /\ view_option = SearchView
    /\ a \in sheet /\ a \notin Range(search_selection)
    /\ Rerun([Cur EXCEPT !.search_selection = Append(search_selection, a)])

\* line 130: one chosen name removed
SearchRemove(a) ==
    /\ pc = "idle" /\ "selection_ui" \in ran /\ view_option = SearchView
    /\ a \in Range(search_selection)
    /\ Rerun([Cur EXCEPT !.search_selection =
                             SelectSeq(search_selection, LAMBDA x : x # a)])

\* lines 284-301: a download button reruns the script
ClickDownload ==
    /\ pc = "idle" /\ "downloads" \in shown
    /\ Rerun(Cur)

\* ------------------------------------------------------ the generation
AiKeys == {"primary_focus", "why_matters", "action_plan", "impact_question",
           "essential_habit", "essential_habit_performed",
           "issue_1", "comment_1", "fix_1", "issue_2", "comment_2", "fix_2",
           "issue_3", "comment_3", "fix_3",
           "likely_root_cause", "root_cause_questions", "final_thoughts"}

\* what generate_content and json.loads can produce for one agent; the JSON
\* object modelled is the full payload, every key present
ModelOutcomes == {"raises", "not_json", "json_not_object", "json_object"}

EmptyMapping == [k \in {} |-> <<>>]

\* lines 226-231: ai_data. A JSON document that is no object (a list, a
\* string, a number) parses, so the except does not replace it.
AiData(outcome) ==
    IF outcome = "json_object"
    THEN [k \in AiKeys |-> <<"*", "*", "a", "*", "*">>]
    ELSE EmptyMapping

\* ai_data.get(key, '')
Get(ai_data, key) == IF key \in DOMAIN ai_data THEN ai_data[key] ELSE <<>>

\* line 265
file_name(agent) == <<"Coaching Plan - ", agent, ".docx">>

\* lines 238-266: the document saved for one pair
CreateDoc(pair, ai_data) ==
    [name |-> file_name(pair.agent),
     date |-> pair.date,
     fields |-> [k \in AiKeys |-> clean_text(Str(Get(ai_data, k)))]]

\* the list of an earlier run is kept
ResetFiles_keep == generated_files

\* line 147
ResetFiles == <<>>

\* the completion flag of an earlier run is kept
ResetFlag_keep == batch_complete

\* line 148
ResetFlag == FALSE

\* lines 146-152: the button is pressed; the script reruns up to it
ClickGenerate ==
    /\ pc = "idle" /\ "generate_button" \in shown
    /\ \E r \in {Script(Cur)} :
           /\ r.button
           /\ generated_files' = ResetFiles
           /\ batch_complete' = ResetFlag
           /\ session_keys' = r.keys
           /\ selected_configs' = r.selected
           /\ offered' = r.offered
           /\ shown' = r.shown
           /\ ran' = r.ran \cup {"generation"}
           /\ loop_configs' = r.selected
    /\ pc' = "generating" /\ loop_i' = 1 /\ responses' = <<>>
    /\ UNCHANGED <<secrets, sheet, password_ok, sheet_url, view_option,
                   select_all_team, check, search_selection,
                   cleanVars, extractVars>>

\* lines 152-267: one iteration. ai_data.get on a value that is no mapping
\* raises AttributeError outside the inner try; line 303 catches it.
GenStep(outcome) ==
    /\ pc = "generating" /\ loop_i <= Len(loop_configs)
    /\ responses' = Append(responses, outcome)
    /\ IF outcome = "json_not_object"
       THEN /\ shown' = shown \cup {"error_data"}
            /\ pc' = "idle"
            /\ UNCHANGED <<generated_files, loop_i>>
       ELSE /\ generated_files' =
                   Append(generated_files, CreateDoc(loop_configs[loop_i], AiData(outcome)))
            /\ loop_i' = loop_i + 1
            /\ UNCHANGED <<shown, pc>>
    /\ UNCHANGED <<secrets, sheet, password_ok, sheet_url, view_option,
                   select_all_team, check, search_selection, session_keys,
                   batch_complete, selected_configs, offered, ran, loop_configs,
                   cleanVars, extractVars>>

\* lines 269-301: the loop is over
GenFinish ==
    /\ pc = "generating" /\ loop_i > Len(loop_configs)
    /\ batch_complete' = TRUE
    /\ LET dl == DownloadSection(TRUE, generated_files)
       IN  /\ shown' = shown \cup (IF dl THEN {"downloads"} ELSE {})
           /\ ran' = ran \cup (IF dl THEN {"packaging"} ELSE {})
    /\ pc' = "idle"
    /\ UNCHANGED <<secrets, sheet, password_ok, sheet_url, view_option,
                   select_all_team, check, search_selection, session_keys,
                   generated_files, selected_configs, offered, loop_configs,
                   loop_i, responses, cleanVars, extractVars>>

Next ==
    \/ \E ok \in BOOLEAN : EnterPassword(ok)
    \/ \E u \in UrlKinds : SetUrl(u)
    \/ \E v \in {TeamView, SearchView} : SetView(v)
    \/ ToggleSelectAll
    \/ \E a \in Agents : ToggleCheck(a)
    \/ \E a \in Agents : SearchAdd(a)
    \/ \E a \in Agents : SearchRemove(a)
    \/ ClickDownload
    \/ ClickGenerate
    \/ \E o \in ModelOutcomes : GenStep(o)
    \/ GenFinish

Spec == Init /\ [][Next]_vars

\* ------------------------------------------------------------- claims
Contains(text, junk) ==
    \E i \in 1..Len(text) : i + Len(junk) - 1 <= Len(text)
                            /\ SubSeq(text, i, i + Len(junk) - 1) = junk

\* C8: clean_text is idempotent and complete: cleaning its own result changes
\* nothing, and the result holds none of the junk substrings.
C8_CleanIdempotentComplete ==
    clean_out # NotRun =>
        /\ clean_twice = clean_out
        /\ \A k \in 1..Len(JunkList) : ~Contains(clean_out, JunkList[k])

MatchingIdx == {i \in 1..Len(df) : df[i].agent = ex_agent}
LastIdx == {i \in MatchingIdx : Cardinality({j \in MatchingIdx : j > i}) < limit}

\* C9: row extraction returns the last N rows of the agent, as loaded and in
\* their original order; all of them when there are fewer than N; and with no
\* matching row the missed and strength lists are empty.
C9_LastRowsInOrder ==
    ex_pc = "done" =>
        /\ {agent_rows[k].idx : k \in 1..Len(agent_rows)} = LastIdx
        /\ \A k \in 1..Len(agent_rows) : agent_rows[k].row = df[agent_rows[k].idx]
        /\ \A k, l \in 1..Len(agent_rows) :
               k < l => agent_rows[k].idx < agent_rows[l].idx
        /\ Cardinality(MatchingIdx) >= limit => Len(agent_rows) = limit
        /\ Cardinality(MatchingIdx) < limit => Len(agent_rows) = Cardinality(MatchingIdx)
        /\ MatchingIdx = {} => missed = <<>> /\ strengths = <<>>

\* an agent with more rows than the lookback, another agent's row among them
C9_Witness ==
    /\ ex_pc = "done" /\ df # <<>>
    /\ Cardinality(MatchingIdx) > limit
    /\ \E i \in 1..Len(df) : i \notin MatchingIdx /\ \E j \in MatchingIdx : j < i
    /\ Len(agent_rows) = limit
    /\ missed # <<>>

FieldsEmpty(doc) == \A k \in AiKeys : doc.fields[k] = <<>>
FieldsPopulated(doc) == \A k \in AiKeys : doc.fields[k] # <<>>
\* the script run that pressed the button is over
RunEnded == pc = "idle" /\ "generation" \in ran
FileNames(files) == [i \in 1..Len(files) |-> files[i].name]
AgentsOf(configs) == [i \in 1..Len(configs) |-> configs[i].agent]
DataErrors == {"bad_url", "no_access", "no_column"}

\* C1: whatever the model returns for an agent (an exception, text that is no
\* JSON, JSON of any shape), the run ends with one document per selected pair
\* and batch_complete set; a failed agent's document has every AI field empty,
\* and an agent with a full payload has them populated.
C1_BatchSurvivesAnyOutcome ==
    RunEnded =>
        /\ Len(generated_files) = Len(loop_configs)
        /\ batch_complete
        /\ \A i \in 1..Len(generated_files) :
               /\ responses[i] \in {"raises", "not_json"} => FieldsEmpty(generated_files[i])
               /\ responses[i] = "json_object" => FieldsPopulated(generated_files[i])

\* C2: the trigger empties the list and clears the flag before the first
\* agent, so while the loop runs the list holds only this run's documents;
\* once the run completes the list is exactly one document per selected pair,
\* in selection order, named "Coaching Plan - <agent>.docx".
C2_LatestRunOnly ==
    /\ pc = "generating" =>
           /\ ~batch_complete
           /\ Len(generated_files) = loop_i - 1
    /\ (RunEnded /\ batch_complete) =>
           FileNames(generated_files) =
               [i \in 1..Len(selected_configs) |->
                    <<"Coaching Plan - ", selected_configs[i].agent, ".docx">>]

\* a completed run of a search selection that is not in sorted order
C2_Witness ==
    /\ RunEnded /\ batch_complete
    /\ view_option = SearchView
    /\ Len(generated_files) >= 2
    /\ selected_configs[1].agent > selected_configs[2].agent

\* C3: a bad URL, an inaccessible sheet or a table without the agent column
\* shows the generic error message and the generation does not run.
C3_DataErrorShowsMessage ==
    (pc = "idle" /\ sheet_url \in DataErrors) =>
        /\ "error_data" \in shown
        /\ "generation" \notin ran
        /\ "generate_button" \notin shown

\* C4: with a completed batch in the session, a render that hits a data
\* error still offers the download section.
C4_EarlierOutputStaysVisible ==
    (pc = "idle" /\ sheet_url \in DataErrors /\ batch_complete /\ generated_files # <<>>) =>
        "downloads" \in shown

ConfigMessages == {"error_password_not_set", "error_team_not_found", "error_authentication"}

\* C5 as stated: a missing access secret, a missing roster or a failed
\* authentication halts the render with a message; no later component runs
\* and no session state is produced.
C5_FatalConfigHalts ==
    (~secrets.has_password \/ (password_ok /\ (~secrets.team_present \/ ~secrets.auth_ok))) =>
        /\ shown \cap ConfigMessages # {}
        /\ ran = {}
        /\ session_keys = {}

\* C5 amended: a missing access secret halts before anything else and leaves
\* no session state; a failed authentication halts after the session state is
\* initialised and before the sidebar, the sheet, the selection, the
\* generation and the packaging; a missing roster shows its message and the
\* run goes on with an empty roster.
C5_ConfigErrors ==
    /\ ~secrets.has_password =>
           /\ shown = {"error_password_not_set"} /\ ran = {} /\ session_keys = {}
    /\ (password_ok /\ ~secrets.auth_ok) =>
           /\ "error_authentication" \in shown
           /\ shown \subseteq ConfigMessages
           /\ ran = {"session_init"}
           /\ session_keys = {"generated_files", "batch_complete"}
           /\ generated_files = <<>> /\ ~batch_complete
    /\ (password_ok /\ ~secrets.team_present) =>
           /\ "error_team_not_found" \in shown
           /\ "session_init" \in ran
           /\ (secrets.auth_ok /\ sheet_url = "ok") => "selection_ui" \in ran

\* without a roster, a batch generated from the search view is offered
C5_Witness ==
    /\ password_ok /\ ~secrets.team_present /\ secrets.auth_ok
    /\ "error_team_not_found" \in shown
    /\ batch_complete /\ "downloads" \in shown

\* C6 as stated (for a roster without repeated names): select-all on, then
\* one agent unchecked, leaves (roster size - 1) entries and the select-all
\* value on.
C6_RosterSizeMinusOne ==
    [][\A a \in Agents :
          (/\ NoDuplicates(MY_TEAM)
           /\ select_all_team
           /\ \A b \in offered : check[b]
           /\ ToggleCheck(a))
          => /\ Len(selected_configs') = Len(MY_TEAM) - 1
             /\ select_all_team']_vars

\* C6 amended: turning select-all on checks every roster checkbox that is
\* rendered; unchecking one of them then leaves (number of roster agents
\* rendered, those present in the table, - 1) entries, and the select-all
\* value stays on.
C6_OfferedMinusOne ==
    [][/\ (ToggleSelectAll /\ select_all_team') =>
              /\ \A a \in offered' : check'[a]
              /\ Len(selected_configs') = Cardinality(offered')
       /\ \A a \in Agents :
              (/\ select_all_team
               /\ \A b \in offered : check[b]
               /\ ToggleCheck(a))
              => /\ ~check'[a]
                 /\ Len(selected_configs') = Cardinality(offered) - 1
                 /\ offered' = offered
                 /\ select_all_team']_vars

\* select-all on, one rendered agent unchecked, a roster agent missing from
\* the table
C6_Witness ==
    /\ select_all_team /\ view_option = TeamView /\ pc = "idle"
    /\ Cardinality({a \in offered : ~check[a]}) = 1
    /\ Len(selected_configs) = Cardinality(offered) - 1
    /\ Len(MY_TEAM) > Cardinality(offered)

RosterSet == IF secrets.team_present THEN Range(secrets.team) ELSE {}
Eligible == {a \in RosterSet \cap sheet : check[a]}
\* no roster name present in the table is configured twice
DupFree ==
    \A i, j \in 1..Len(secrets.team) :
        (i # j /\ secrets.team[i] = secrets.team[j]) => secrets.team[i] \notin sheet
InRosterView == "selection_ui" \in ran /\ view_option = TeamView

\* C7 as stated: the list is the configured roster, in its configured order,
\* restricted to the agents present in the table and checked.
C7_ConfiguredOrder ==
    (InRosterView /\ NoDuplicates(secrets.team)) =>
        AgentsOf(selected_configs) =
            SelectSeq(secrets.team, LAMBDA a : a \in sheet /\ check[a])

\* C7 amended: the list holds the roster agents present in the table and
\* checked, in ascending sorted order of their names, each at most once; an
\* agent absent from the table is never offered.
C7_SortedRosterOrder ==
    InRosterView =>
        /\ offered \subseteq RosterSet \cap sheet
        /\ \A i, j \in 1..Len(selected_configs) :
               i < j => selected_configs[i].agent < selected_configs[j].agent
        /\ Range(AgentsOf(selected_configs)) \subseteq Eligible
        /\ DupFree => /\ Range(AgentsOf(selected_configs)) = Eligible
                      /\ offered = RosterSet \cap sheet

\* a roster configured out of order, both agents selected
C7_Witness ==
    /\ InRosterView
    /\ secrets.team_present /\ secrets.team # Sorted(secrets.team)
    /\ Len(selected_configs) >= 2
    /\ Range(AgentsOf(selected_configs)) = Eligible

\* C10: batch_complete is set only with one document for every pair of the
\* latest triggered run; the download section is offered only then; a run
\* that an exception ends inside the loop leaves the flag clear and the list
\* partial.
C10_CompleteOnlyWhenWhole ==
    /\ batch_complete =>
           /\ loop_configs # <<>>
           /\ FileNames(generated_files) =
                  [i \in 1..Len(loop_configs) |->
                       <<"Coaching Plan - ", loop_configs[i].agent, ".docx">>]
    /\ "downloads" \in shown =>
           /\ batch_complete
           /\ Len(generated_files) = Len(loop_configs)
    /\ (RunEnded /\ "error_data" \in shown) =>
           /\ ~batch_complete
           /\ Len(generated_files) < Len(loop_configs)

\* a run ended by an exception after its first document
C10_Witness ==
    /\ RunEnded /\ "error_data" \in shown
    /\ generated_files # <<>>
    /\ ~batch_complete /\ "downloads" \notin shown

====
